---------------------------- MODULE Spec2Model ----------------------------
(***************************************************************************)
(* A model of the CodeTools diff panel (app.js, the three-editor version), *)
(* of computeAndRenderDiff (differ.js) and of formatCode (formatter.js).   *)
(*                                                                         *)
(* A text is a sequence of one-character strings.  The editors, the title  *)
(* inputs, the base designation and the output container are the state;    *)
(* every event handler is one action.  The status bar is write-only: the   *)
(* statuses a handleDiff invocation shows are kept with the invocation.    *)
(* What a handler reads of its environment is an input of the action: the *)
(* language select, and which of the libraries loaded from the CDN are     *)
(* defined (prettier and prettierPlugins, Diff, Diff2HtmlUI).              *)
(*                                                                         *)
(* handleDiff is an async function: it runs atomically from its start, or  *)
(* from the settlement of the promise it awaits, up to the next await      *)
(* whose promise is settled by the external pretty-printer                 *)
(* (prettier.format) or to its end.  An await on a promise that is already *)
(* settled resumes in a microtask, before any other event handler can run, *)
(* so it does not end the atomic step.                                     *)
(***************************************************************************)
EXTENDS Integers, Sequences, FiniteSets, TLC

VARIABLES
    content,       \* content[k]: the document of editor diff<k>
    title,         \* title[k]: the value of the title input of editor k
    primary,       \* diffState.primary
    container,     \* the children of #diff-output-container
    invs,          \* the handleDiff invocations in flight or just finished
    events,        \* the user events handled so far
    probe,         \* a call of computeAndRenderDiff and what it returned
    hist           \* the editors before a series of rotations, and its length

app == <<content, title, primary, container, invs>>
vars == <<content, title, primary, container, invs, events, probe, hist>>

(***************************************************************************)
(* Bounds of the model.                                                    *)
(***************************************************************************)
\* the longest text given to computeAndRenderDiff in SpecDiffer
MaxDiffLen == 3
\* the longest text given to formatPython and to formatCode in SpecFormat
MaxFormatLen == 6
\* the user events of a behaviour of Spec
MaxEvents == 2
\* the handleDiff invocations in flight at once in Spec
MaxInFlight == 1
\* the longest editor text of SpecCycle
MaxCycleLen == 1
\* the longest series of rotations of SpecCycle
MaxCycles == 3

(***************************************************************************)
(* Texts.                                                                  *)
(***************************************************************************)
NL == "\n"
Keys == <<"A", "B", "C">>
KeySet == {"A", "B", "C"}

\* the characters String.prototype.trim and the regex class \s take as
\* white space, among those the model uses
IsWs(c) == c \in {" ", "\n", "\t", "\r"}

RECURSIVE TrimStart(_)
TrimStart(s) ==
    IF s = <<>> THEN s
    ELSE IF IsWs(Head(s)) THEN TrimStart(Tail(s)) ELSE s

RECURSIVE TrimEnd(_)
TrimEnd(s) ==
    IF s = <<>> THEN s
    ELSE IF IsWs(s[Len(s)]) THEN TrimEnd(SubSeq(s, 1, Len(s) - 1)) ELSE s

\* String.prototype.trim
Trim(s) == TrimEnd(TrimStart(s))

\* String.prototype.endsWith('\n')
EndsWithNL(s) == Len(s) > 0 /\ s[Len(s)] = NL

\* every text over the alphabet of length at most n
RECURSIVE TextsUpTo(_, _)
TextsUpTo(alphabet, n) ==
    IF n = 0 THEN {<<>>}
    ELSE LET shorter == TextsUpTo(alphabet, n - 1)
         IN  shorter \cup {Append(t, c) : t \in shorter, c \in alphabet}

(***************************************************************************)
(* formatter.js                                                            *)
(***************************************************************************)
\* what the promise of formatCode settles with: the text it resolves with, or
\* the message of the Error it rejects with, as the parts it is built of
Ok(text) == [ok |-> TRUE, text |-> text, error |-> <<>>]
Err(message) == [ok |-> FALSE, text |-> <<>>, error |-> message]

\* .replace(/\r\n/g, '\n')
RECURSIVE ReplaceCRLF(_)
ReplaceCRLF(s) ==
    IF s = <<>> THEN s
    ELSE IF Len(s) >= 2 /\ s[1] = "\r" /\ s[2] = NL
         THEN <<NL>> \o ReplaceCRLF(SubSeq(s, 3, Len(s)))
         ELSE <<Head(s)>> \o ReplaceCRLF(Tail(s))

\* .replace(/\r/g, '\n')
RECURSIVE ReplaceCR(_)
ReplaceCR(s) ==
    IF s = <<>> THEN s
    ELSE <<IF Head(s) = "\r" THEN NL ELSE Head(s)>> \o ReplaceCR(Tail(s))

\* .replace(/\t/g, '    ')
RECURSIVE ExpandTabs(_)
ExpandTabs(s) ==
    IF s = <<>> THEN s
    ELSE (IF Head(s) = "\t" THEN <<" ", " ", " ", " ">> ELSE <<Head(s)>>)
         \o ExpandTabs(Tail(s))

\* .split('\n')
RECURSIVE Split(_)
Split(s) ==
    IF \A i \in 1..Len(s) : s[i] # NL THEN <<s>>
    ELSE LET i == CHOOSE i \in 1..Len(s) :
                      s[i] = NL /\ \A j \in 1..(i - 1) : s[j] # NL
         IN  <<SubSeq(s, 1, i - 1)>> \o Split(SubSeq(s, i + 1, Len(s)))

\* .join('\n')
RECURSIVE Join(_)
Join(lines) ==
    IF Len(lines) = 1 THEN lines[1]
    ELSE lines[1] \o <<NL>> \o Join(Tail(lines))

\* .map(line => line.replace(/\s+$/, ''))
StripLines(lines) == [i \in 1..Len(lines) |-> TrimEnd(lines[i])]

\* the length of the run of newlines s starts with
RECURSIVE RunLen(_)
RunLen(s) ==
    IF s = <<>> \/ Head(s) # NL THEN 0 ELSE 1 + RunLen(Tail(s))

\* the shortest run of newlines /\n{4,}/ matches
MinCollapseRun == 4

\* .replace(/\n{4,}/g, '\n\n\n')
RECURSIVE CollapseBlankLines(_)
CollapseBlankLines(s) ==
    IF s = <<>> THEN s
    ELSE IF Head(s) = NL
         THEN LET n == RunLen(s)
              IN  (IF n >= MinCollapseRun THEN <<NL, NL, NL>>
                                          ELSE SubSeq(s, 1, n))
                  \o CollapseBlankLines(SubSeq(s, n + 1, Len(s)))
         ELSE <<Head(s)>> \o CollapseBlankLines(Tail(s))

\* the text without the newlines it ends with
RECURSIVE StripFinalNewlines(_)
StripFinalNewlines(s) ==
    IF EndsWithNL(s) THEN StripFinalNewlines(SubSeq(s, 1, Len(s) - 1)) ELSE s

\* .replace(/\n*$/, '\n')
SingleFinalNewline(s) == StripFinalNewlines(s) \o <<NL>>

\* formatPython with the blank lines collapsed before the lines are stripped
formatPythonCollapseFirst(code) ==
    SingleFinalNewline(
        Join(StripLines(Split(
            CollapseBlankLines(ExpandTabs(ReplaceCR(ReplaceCRLF(code))))))))

formatPython(code) ==
    SingleFinalNewline(
        CollapseBlankLines(
            Join(StripLines(Split(ExpandTabs(ReplaceCR(ReplaceCRLF(code))))))))

\* JSON.parse, on the texts of white space, the digit 1 and the letter x: the
\* JSON texts among them are the numbers 1, 11, 111, ... between white space;
\* on any other it throws a SyntaxError with a message
JSONparse(code) ==
    LET t == Trim(code)
    IN  IF t # <<>> /\ \A i \in 1..Len(t) : t[i] = "1"
        THEN [ok |-> TRUE, value |-> t, message |-> ""]
        ELSE [ok |-> FALSE, value |-> <<>>,
              message |-> IF t = <<>> THEN "Unexpected end of JSON input"
                                      ELSE "Unexpected token"]

\* JSON.stringify(parsed, null, 2), of a number
JSONstringify(value) == value

\* what prettier.format resolves with when it accepts the text: the value
\* printed on a line of its own
PrettierFormat(code) == Trim(code) \o <<NL>>

\* the Error of the fallback: `Invalid JSON: ${e.message}`
InvalidSyntax(message) == <<"Invalid JSON: ", message>>
NoCode ==
    <<"No code to format. Please enter some code in the input editor.">>
Unsupported(lang) == <<"Unsupported language: ", lang>>

\* formatJSON with the failure of the fallback swallowed: the text is
\* returned as it is
formatJSONKeepsRaw(code, pretty) ==
    IF pretty = "resolves" THEN Ok(PrettierFormat(code))
    ELSE LET parsed == JSONparse(code)
         IN  IF parsed.ok THEN Ok(JSONstringify(parsed.value) \o <<NL>>)
             ELSE Ok(code)

\* formatJSON; pretty is what became of the pretty-printer stage: "absent"
\* (prettier or prettierPlugins undefined), "rejects" or "resolves"
formatJSON(code, pretty) ==
    IF pretty = "resolves" THEN Ok(PrettierFormat(code))
    ELSE LET parsed == JSONparse(code)
         IN  IF parsed.ok THEN Ok(JSONstringify(parsed.value) \o <<NL>>)
             ELSE Err(InvalidSyntax(parsed.message))

\* formatCode, for the languages whose formatter is in the model
formatCode(code, lang, pretty) ==
    IF Trim(code) = <<>> THEN Err(NoCode)
    ELSE CASE lang = "json" -> formatJSON(code, pretty)
           [] lang = "python" -> Ok(formatPython(code))
           [] OTHER -> Err(Unsupported(lang))

(***************************************************************************)
(* differ.js                                                               *)
(***************************************************************************)
DifferUnavailable ==
    "jsdiff library is not loaded. Check your internet connection."
RendererUnavailable ==
    "diff2html library is not loaded. Check your internet connection."
TargetRequired == "Target element is required for diff rendering."

\* original.endsWith('\n') ? original : original + '\n'
WithFinalNewline(s) == IF EndsWithNL(s) THEN s ELSE s \o <<NL>>

\* what a call of computeAndRenderDiff did: identical and error are what it
\* returned or threw, html the target element's content afterwards, patch the
\* two texts Diff.createTwoFilesPatch was given, drawn whether Diff2HtmlUI
\* drew into the target element
DiffReturn(identical, html, patch, drawn) ==
    [identical |-> identical, error |-> "", html |-> html,
     patch |-> patch, drawn |-> drawn]
DiffThrow(message, patch) ==
    [identical |-> FALSE, error |-> message, html |-> "",
     patch |-> patch, drawn |-> FALSE]

\* computeAndRenderDiff with the checks of the two libraries moved before the
\* checks for identical and for empty inputs
computeAndRenderDiffMovedChecks(original, modified, targetEl, diffLib, uiLib) ==
    LET origText == WithFinalNewline(original)
        modText == WithFinalNewline(modified)
    IN  IF ~targetEl THEN DiffThrow(TargetRequired, <<>>)
        ELSE IF ~diffLib THEN DiffThrow(DifferUnavailable, <<>>)
        ELSE IF ~uiLib
             THEN DiffThrow(RendererUnavailable, <<origText, modText>>)
        ELSE IF original = modified
             THEN DiffReturn(TRUE, "identical", <<>>, FALSE)
        ELSE IF Trim(original) = <<>> /\ Trim(modified) = <<>>
             THEN DiffReturn(TRUE, "empty", <<>>, FALSE)
        ELSE DiffReturn(FALSE, "diff", <<origText, modText>>, TRUE)

computeAndRenderDiff(original, modified, targetEl, diffLib, uiLib) ==
    LET origText == WithFinalNewline(original)
        modText == WithFinalNewline(modified)
    IN  IF ~targetEl THEN DiffThrow(TargetRequired, <<>>)
        ELSE IF original = modified
             THEN DiffReturn(TRUE, "identical", <<>>, FALSE)
        ELSE IF Trim(original) = <<>> /\ Trim(modified) = <<>>
             THEN DiffReturn(TRUE, "empty", <<>>, FALSE)
        ELSE IF ~diffLib THEN DiffThrow(DifferUnavailable, <<>>)
        ELSE IF ~uiLib
             THEN DiffThrow(RendererUnavailable, <<origText, modText>>)
        ELSE DiffReturn(FALSE, "diff", <<origText, modText>>, TRUE)

(***************************************************************************)
(* app.js: the diff panel                                                  *)
(***************************************************************************)
\* the texts a user types into an editor of the diff panel: nothing, white
\* space only, a JSON text that formatting changes, a text that is not JSON
SlotTexts == {<<>>, <<" ">>, <<"1">>, <<"x">>}
\* the texts a user replaces an editor's text with while the panel works
EditTexts == {<<>>, <<"x">>}

NoContent == [k \in KeySet |-> <<>>]

\* allKeys.filter(k => getEditorContent(getDiffEditor(k)).trim())
WithContent(c, keys) == SelectSeq(keys, LAMBDA k : Trim(c[k]) # <<>>)

Status(message, type, count) ==
    [message |-> message, type |-> type, count |-> count]
NothingToCompare == Status("Enter content in at least two editors", "error", 0)
BaseEmpty == Status("Base editor is empty", "error", 0)
InsufficientInput ==
    Status("Enter content in at least one other editor", "error", 0)
NoDifferences == Status("No differences found", "success", 0)
DiffComputed(n) == Status("Diff computed", "success", n)

\* showStatus, called by a handleDiff invocation
showStatus(m, status) ==
    [m EXCEPT !.inv.statuses = Append(@, status), !.inv.pc = "done"]

\* the comparison pass with allIdentical set by the last pair alone
RECURSIVE CompareLoopLastPair(_, _, _, _)
CompareLoopLastPair(m, baseContent, j, allIdentical) ==
    LET others == m.inv.othersWithContent
    IN  IF j > Len(others)
        THEN showStatus(m, IF allIdentical THEN NoDifferences
                                           ELSE DiffComputed(Len(others)))
        ELSE LET otherKey == others[j]
                 otherContent == m.content[otherKey]
                 r == computeAndRenderDiff(baseContent, otherContent, TRUE,
                                           m.inv.hasDiff, m.inv.hasDiff2Html)
                 m1 == [m EXCEPT
                          !.container =
                              Append(@, [other |-> otherKey, body |-> r.html]),
                          !.inv.results =
                              Append(@, [other |-> otherKey,
                                         base |-> baseContent,
                                         text |-> otherContent,
                                         identical |-> r.identical,
                                         error |-> r.error])]
             IN  IF r.error # ""
                 THEN showStatus(m1, Status(r.error, "error", 0))
                 ELSE CompareLoopLastPair(m1, baseContent, j + 1, r.identical)

\* the comparison pass with the error of a pair caught inside the loop: the
\* pair counts as changed and the pass goes on
RECURSIVE CompareLoopCatchesPair(_, _, _, _)
CompareLoopCatchesPair(m, baseContent, j, allIdentical) ==
    LET others == m.inv.othersWithContent
    IN  IF j > Len(others)
        THEN showStatus(m, IF allIdentical THEN NoDifferences
                                           ELSE DiffComputed(Len(others)))
        ELSE LET otherKey == others[j]
                 otherContent == m.content[otherKey]
                 r == computeAndRenderDiff(baseContent, otherContent, TRUE,
                                           m.inv.hasDiff, m.inv.hasDiff2Html)
                 m1 == [m EXCEPT
                          !.container =
                              Append(@, [other |-> otherKey, body |-> r.html]),
                          !.inv.results =
                              Append(@, [other |-> otherKey,
                                         base |-> baseContent,
                                         text |-> otherContent,
                                         identical |-> r.identical,
                                         error |-> r.error])]
             IN  CompareLoopCatchesPair(m1, baseContent, j + 1,
                                        allIdentical /\ r.identical)

\* the comparison pass of handleDiff from its j-th candidate on
RECURSIVE CompareLoop(_, _, _, _)
CompareLoop(m, baseContent, j, allIdentical) ==
    LET others == m.inv.othersWithContent
    IN  IF j > Len(others)
        THEN showStatus(m, IF allIdentical THEN NoDifferences
                                           ELSE DiffComputed(Len(others)))
        ELSE LET otherKey == others[j]
                 otherContent == m.content[otherKey]
                 r == computeAndRenderDiff(baseContent, otherContent, TRUE,
                                           m.inv.hasDiff, m.inv.hasDiff2Html)
                 m1 == [m EXCEPT
                          !.container =
                              Append(@, [other |-> otherKey, body |-> r.html]),
                          !.inv.results =
                              Append(@, [other |-> otherKey,
                                         base |-> baseContent,
                                         text |-> otherContent,
                                         identical |-> r.identical,
                                         error |-> r.error])]
             IN  IF r.error # ""
                 THEN showStatus(m1, Status(r.error, "error", 0))
                 ELSE CompareLoop(m1, baseContent, j + 1,
                                  allIdentical /\ r.identical)

\* the comparison pass; libs: whether Diff and Diff2HtmlUI are defined
ComparePass(m, libs) ==
    CompareLoop([m EXCEPT !.inv.hasDiff = libs.hasDiff,
                          !.inv.hasDiff2Html = libs.hasDiff2Html],
                m.content[m.inv.baseKey], 1, TRUE)

\* the await of formatCode(raw, language) is settled by prettier.format
AwaitsPrettier(m, raw) ==
    m.inv.language = "json" /\ m.inv.hasPrettier /\ Trim(raw) # <<>>

\* handleDiff is suspended at the await of formatCode
Suspend(m, raw) == [m EXCEPT !.inv.pc = "await", !.inv.raw = raw]

\* the pre-formatting pass of handleDiff from its idx-th key on, up to the
\* next await that prettier.format settles, and the comparison pass after it
RECURSIVE FormatLoop(_, _)
\* the rest of an iteration with the editor emptied when formatCode fails
AfterFormatDropsRaw(m, raw, r, libs) ==
    LET key == m.inv.keysWithContent[m.inv.idx]
        m1 == [m EXCEPT
                 !.content[key] = r.text,
                 !.inv.fmt = Append(@, [key |-> key, raw |-> raw,
                                        ok |-> r.ok, text |-> r.text]),
                 !.inv.idx = @ + 1,
                 !.inv.raw = <<>>,
                 !.inv.pc = "run"]
    IN  FormatLoop(m1, libs)

\* the rest of an iteration of the pre-formatting pass, formatCode(raw,
\* language) having settled with r
AfterFormat(m, raw, r, libs) ==
    LET key == m.inv.keysWithContent[m.inv.idx]
        m1 == [m EXCEPT
                 !.content[key] = IF r.ok THEN r.text ELSE @,
                 !.inv.fmt = Append(@, [key |-> key, raw |-> raw,
                                        ok |-> r.ok, text |-> r.text]),
                 !.inv.idx = @ + 1,
                 !.inv.raw = <<>>,
                 !.inv.pc = "run"]
    IN  FormatLoop(m1, libs)

FormatLoop(m, libs) ==
    IF m.inv.idx > Len(m.inv.keysWithContent) THEN ComparePass(m, libs)
    ELSE LET raw == m.content[m.inv.keysWithContent[m.inv.idx]]
         IN  IF AwaitsPrettier(m, raw) THEN Suspend(m, raw)
             ELSE AfterFormat(m, raw,
                              formatCode(raw, m.inv.language, "absent"), libs)

\* what an invocation of handleDiff reads of its environment: the language
\* select and whether prettier and prettierPlugins are defined (formatPython
\* does not look at them), and, in its comparison pass, whether Diff and
\* Diff2HtmlUI are
Envs == {[language |-> "json", hasPrettier |-> TRUE],
         [language |-> "json", hasPrettier |-> FALSE],
         [language |-> "python", hasPrettier |-> FALSE]}
Libs == [hasDiff : BOOLEAN, hasDiff2Html : BOOLEAN]

\* an invocation of handleDiff: its local constants, its place (pc, idx,
\* raw) and what it has done (statuses, fmt, results); id tells the
\* invocations of a behaviour apart
NewInv(baseKey, keysWithContent, othersWithContent) ==
    [id |-> 0, pc |-> "run", baseKey |-> baseKey,
     language |-> "", hasPrettier |-> FALSE,
     hasDiff |-> FALSE, hasDiff2Html |-> FALSE,
     keysWithContent |-> keysWithContent,
     othersWithContent |-> othersWithContent,
     idx |-> 1, raw |-> <<>>, statuses |-> <<>>, fmt |-> <<>>,
     results |-> <<>>]

\* the validation of handleDiff: the status it fails with, or none
NoStatus == <<>>
ValidationBaseFirst(c, baseKey, othersWithContent) ==
    IF Trim(c[baseKey]) = <<>> THEN <<BaseEmpty>>
    ELSE IF Len(othersWithContent) = 0 THEN <<InsufficientInput>>
    ELSE NoStatus

Validation(c, baseKey, othersWithContent) ==
    IF Trim(c[baseKey]) = <<>> /\ Len(othersWithContent) = 0
    THEN <<NothingToCompare>>
    ELSE IF Trim(c[baseKey]) = <<>> THEN <<BaseEmpty>>
    ELSE IF Len(othersWithContent) = 0 THEN <<InsufficientInput>>
    ELSE NoStatus

\* handleDiff with the return after a failed validation left out
handleDiffEntryNoReturn(c, baseKey, env, libs) ==
    LET keysWithContent == WithContent(c, Keys)
        otherKeys == SelectSeq(Keys, LAMBDA k : k # baseKey)
        othersWithContent == WithContent(c, otherKeys)
        failure == Validation(c, baseKey, othersWithContent)
        m == [content |-> c,
              container |-> <<>>,
              inv |-> NewInv(baseKey, keysWithContent, othersWithContent)]
        m1 == IF failure # NoStatus THEN showStatus(m, failure[1]) ELSE m
    IN  FormatLoop([m1 EXCEPT !.inv.language = env.language,
                              !.inv.hasPrettier = env.hasPrettier], libs)

\* handleDiff from its call to its first await that prettier.format settles
handleDiffEntry(c, baseKey, env, libs) ==
    LET keysWithContent == WithContent(c, Keys)
        otherKeys == SelectSeq(Keys, LAMBDA k : k # baseKey)
        othersWithContent == WithContent(c, otherKeys)
        failure == Validation(c, baseKey, othersWithContent)
        m == [content |-> c,
              container |-> <<>>,
              inv |-> NewInv(baseKey, keysWithContent, othersWithContent)]
    IN  IF failure # NoStatus THEN showStatus(m, failure[1])
        ELSE FormatLoop([m EXCEPT !.inv.language = env.language,
                                  !.inv.hasPrettier = env.hasPrettier], libs)

\* handleDiff from the settlement of the promise it awaits
handleDiffResume(c, cont, inv, pretty, libs) ==
    AfterFormat([content |-> c, container |-> cont, inv |-> inv],
                inv.raw, formatCode(inv.raw, inv.language, pretty), libs)

\* the invocations still in flight: a finished one is kept for one step
Live(s) == SelectSeq(s, LAMBDA r : r.pc # "done")

\* ---- the event handlers ----
HandleDiff ==
    \E env \in Envs, libs \in Libs :
        /\ \E m \in {handleDiffEntry(content, primary, env, libs)} :
               /\ content' = m.content
               /\ container' = m.container
               /\ invs' = Append(Live(invs), [m.inv EXCEPT !.id = events + 1])
        /\ UNCHANGED <<title, primary>>

\* the promise of prettier.format settles and handleDiff resumes
Settle ==
    \E i \in DOMAIN invs, pretty \in {"rejects", "resolves"}, libs \in Libs :
        /\ invs[i].pc = "await"
        /\ \E m \in {handleDiffResume(content, container, invs[i], pretty,
                                       libs)} :
               /\ content' = m.content
               /\ container' = m.container
               /\ invs' = SelectSeq([j \in DOMAIN invs |->
                                        IF j = i THEN m.inv ELSE invs[j]],
                                    LAMBDA r : r.pc # "done" \/ r = m.inv)
        /\ UNCHANGED <<title, primary>>

\* the rotation the other way round: A gets B's, B gets C's, C gets A's
rotateBack(f) == [k \in KeySet |-> CASE k = "A" -> f["B"]
                                      [] k = "B" -> f["C"]
                                      [] k = "C" -> f["A"]]

\* the rotation done in place, B reading A after A was written
rotateInPlace(f) == [k \in KeySet |-> CASE k = "A" -> f["C"]
                                         [] k = "B" -> f["C"]
                                         [] k = "C" -> f["B"]]

\* Rotate: A gets C's content, B gets A's, C gets B's
rotate(f) == [k \in KeySet |-> CASE k = "A" -> f["C"]
                                  [] k = "B" -> f["A"]
                                  [] k = "C" -> f["B"]]

\* handleCycle ending, as handleDiffClear does, with the base set to A and
\* the output emptied
HandleCycleResets ==
    /\ content' = rotate(content)
    /\ title' = rotate(title)
    /\ invs' = Live(invs)
    /\ primary' = "A"
    /\ container' = <<>>

HandleCycle ==
    /\ content' = rotate(content)
    /\ title' = rotate(title)
    /\ invs' = Live(invs)
    /\ UNCHANGED <<primary, container>>

\* handleDiffClear without its call of setDiffPrimary('A')
HandleDiffClearKeepsBase ==
    /\ content' = NoContent
    /\ title' = NoContent
    /\ container' = <<>>
    /\ invs' = Live(invs)
    /\ UNCHANGED primary

HandleDiffClear ==
    /\ content' = NoContent
    /\ title' = NoContent
    /\ container' = <<>>
    /\ primary' = "A"
    /\ invs' = Live(invs)

\* the change event of a radio button: another button was checked
SetDiffPrimary ==
    \E k \in KeySet \ {primary} :
        /\ primary' = k
        /\ invs' = Live(invs)
        /\ UNCHANGED <<content, title, container>>

\* the user replaces the text of an editor
EditContent ==
    \E k \in KeySet, t \in EditTexts :
        /\ content' = [content EXCEPT ![k] = t]
        /\ invs' = Live(invs)
        /\ UNCHANGED <<title, primary, container>>

NoProbe == [original |-> <<>>, modified |-> <<>>, ret |-> <<>>]
NoHist == [content |-> NoContent, title |-> NoContent, cycles |-> 0]

(***************************************************************************)
(* Spec: the diff panel.  The editors hold any texts when a behaviour      *)
(* starts; the event loop then handles up to MaxEvents user events, and    *)
(* the promises that handleDiff awaits settle at any time between them.    *)
(***************************************************************************)
SomeTitles == [k \in KeySet |-> IF k = "A" THEN <<"T">> ELSE <<>>]

Init ==
    /\ content \in [KeySet -> SlotTexts]
    /\ title = SomeTitles
    /\ primary = "A"
    /\ container = <<>>
    /\ invs = <<>>
    /\ events = 0
    /\ probe = NoProbe
    /\ hist = NoHist

DiffClick ==
    events < MaxEvents /\ Len(Live(invs)) < MaxInFlight /\ HandleDiff
    /\ events' = events + 1 /\ UNCHANGED <<probe, hist>>
PromiseSettles ==
    Settle /\ UNCHANGED <<events, probe, hist>>
CycleClick ==
    events < MaxEvents /\ HandleCycle
    /\ events' = events + 1 /\ UNCHANGED <<probe, hist>>
ClearClick ==
    events < MaxEvents /\ HandleDiffClear
    /\ events' = events + 1 /\ UNCHANGED <<probe, hist>>
PrimaryChange ==
    events < MaxEvents /\ SetDiffPrimary
    /\ events' = events + 1 /\ UNCHANGED <<probe, hist>>
EditorInput ==
    events < MaxEvents /\ EditContent
    /\ events' = events + 1 /\ UNCHANGED <<probe, hist>>

Next ==
    \/ DiffClick
    \/ PromiseSettles
    \/ CycleClick
    \/ ClearClick
    \/ PrimaryChange
    \/ EditorInput

Spec == Init /\ [][Next]_vars

(***************************************************************************)
(* SpecDiffer: computeAndRenderDiff, called once on any two texts of at    *)
(* most MaxDiffLen characters, with Diff and Diff2HtmlUI defined or not.   *)
(***************************************************************************)
DiffAlphabet == {"x", " ", NL}
DiffTexts == TextsUpTo(DiffAlphabet, MaxDiffLen)

Constructed ==
    /\ content = NoContent
    /\ title = NoContent
    /\ primary = "A"
    /\ container = <<>>
    /\ invs = <<>>
    /\ events = 0

InitDiffer ==
    /\ Constructed
    /\ hist = NoHist
    /\ probe \in [original : DiffTexts, modified : DiffTexts,
                   hasDiff : BOOLEAN, hasDiff2Html : BOOLEAN, ret : {<<>>}]

DifferCall ==
    /\ probe.ret = <<>>
    /\ probe' = [probe EXCEPT !.ret =
                    <<computeAndRenderDiff(probe.original, probe.modified, TRUE,
                                           probe.hasDiff, probe.hasDiff2Html)>>]
    /\ UNCHANGED <<app, events, hist>>

NextDiffer == DifferCall

SpecDiffer == InitDiffer /\ [][NextDiffer]_vars

(***************************************************************************)
(* SpecFormat: one call of formatPython on any text of at most             *)
(* MaxFormatLen characters and a second call on what the first returned,   *)
(* or one call of formatCode for json on any such text, with the           *)
(* pretty-printer absent, rejecting or resolving.                          *)
(***************************************************************************)
PythonAlphabet == {"x", " ", NL, "\r", "\t"}
PythonTexts == TextsUpTo(PythonAlphabet, MaxFormatLen)
JSONAlphabet == {"1", "x", " "}
JSONTexts == TextsUpTo(JSONAlphabet, MaxFormatLen)
PrettyStates == {"absent", "rejects", "resolves"}

InitFormat ==
    /\ Constructed
    /\ hist = NoHist
    /\ probe \in [fn : {"formatPython"}, code : PythonTexts, lang : {"python"},
                   pretty : {"absent"}, ret : {<<>>}, again : {<<>>}]
              \cup [fn : {"formatCode"}, code : JSONTexts, lang : {"json"},
                    pretty : PrettyStates, ret : {<<>>}, again : {<<>>}]

PythonCall ==
    /\ probe.fn = "formatPython" /\ probe.ret = <<>>
    /\ probe' = [probe EXCEPT !.ret = <<formatPython(probe.code)>>]
    /\ UNCHANGED <<app, events, hist>>

PythonAgain ==
    /\ probe.fn = "formatPython" /\ probe.ret # <<>> /\ probe.again = <<>>
    /\ probe' = [probe EXCEPT !.again = <<formatPython(probe.ret[1])>>]
    /\ UNCHANGED <<app, events, hist>>

FormatCodeCall ==
    /\ probe.fn = "formatCode" /\ probe.ret = <<>>
    /\ probe' = [probe EXCEPT
                    !.ret = <<formatCode(probe.code, probe.lang, probe.pretty)>>]
    /\ UNCHANGED <<app, events, hist>>

NextFormat ==
    \/ PythonCall
    \/ PythonAgain
    \/ FormatCodeCall

SpecFormat == InitFormat /\ [][NextFormat]_vars

(***************************************************************************)
(* SpecCycle: a series of clicks on the cycle button and nothing between   *)
(* them, from any texts and titles; hist keeps the editors as they were.   *)
(***************************************************************************)
CycleTexts == TextsUpTo({"x", NL}, MaxCycleLen)
CycleTitles == {<<>>, <<"T">>, <<"U">>}
SomeOutput == <<[other |-> "B", body |-> "diff"]>>

InitCycle ==
    /\ content \in [KeySet -> CycleTexts]
    /\ title \in [KeySet -> CycleTitles]
    /\ primary \in KeySet
    /\ container \in {<<>>, SomeOutput}
    /\ invs = <<>>
    /\ events = 0
    /\ probe = NoProbe
    /\ hist = [content |-> content, title |-> title, cycles |-> 0]

CycleAgain ==
    /\ hist.cycles < MaxCycles
    /\ HandleCycle
    /\ hist' = [hist EXCEPT !.cycles = @ + 1]
    /\ UNCHANGED <<events, probe>>

NextCycle == CycleAgain

SpecCycle == InitCycle /\ [][NextCycle]_vars

(***************************************************************************)
(* The claims.                                                             *)
(***************************************************************************)
Range(seq) == {seq[i] : i \in DOMAIN seq}
Blank(t) == Trim(t) = <<>>
Finished == {invs[i] : i \in {j \in DOMAIN invs : invs[j].pc = "done"}}
\* the invocation passed the validation: its base and a candidate had content
Validated(inv) ==
    inv.baseKey \in Range(inv.keysWithContent)
    /\ Len(inv.othersWithContent) > 0
Fatal(inv) == \E j \in DOMAIN inv.results : inv.results[j].error # ""

\* C1: a handleDiff invocation whose base is blank while a candidate is not
\* fails with BaseEmpty, one whose base is not blank while every candidate is
\* fails with InsufficientInput, one whose three editors are blank fails with
\* NothingToCompare; it then shows that one status, formats and compares
\* nothing, and leaves every editor as it was.
C1_FailsWith(inv, status) ==
    /\ inv.pc = "done"
    /\ inv.statuses = <<status>>
    /\ inv.fmt = <<>>
    /\ inv.results = <<>>
    /\ content' = content
C1_Step ==
    LET baseBlank == Blank(content[primary])
        someCandidate == \E k \in KeySet \ {primary} : ~Blank(content[k])
        inv == invs'[Len(invs')]
    IN  /\ baseBlank /\ someCandidate => C1_FailsWith(inv, BaseEmpty)
        /\ ~baseBlank /\ ~someCandidate => C1_FailsWith(inv, InsufficientInput)
        /\ baseBlank /\ ~someCandidate => C1_FailsWith(inv, NothingToCompare)
\* a step that starts an invocation: its record is the newest, numbered by
\* the event
C1_Starts ==
    /\ events' = events + 1
    /\ invs' # <<>>
    /\ invs'[Len(invs')].id = events'
C1_Validation == [][C1_Starts => C1_Step]_vars
\* a base other than A, holding white space only, refused with BaseEmpty
C1_Witness ==
    \E inv \in Finished :
        /\ inv.statuses = <<BaseEmpty>>
        /\ inv.baseKey = "B"
        /\ content["B"] = <<" ">>

\* C2: a handleDiff invocation that passed the validation and ended without
\* a fatal error made one comparison per candidate and shows one status:
\* 'No differences found' if and only if every comparison returned identical,
\* and 'Diff computed' with the number of candidates otherwise.
C2_Aggregation ==
    \A inv \in Finished :
        Validated(inv) /\ ~Fatal(inv) =>
            /\ Len(inv.results) = Len(inv.othersWithContent)
            /\ Len(inv.statuses) = 1
            /\ inv.statuses[1] = NoDifferences
                   <=> \A j \in DOMAIN inv.results : inv.results[j].identical
            /\ inv.statuses[1] # NoDifferences
                   => inv.statuses[1] = DiffComputed(Len(inv.othersWithContent))
\* two comparisons, the first changed and the second identical
C2_Witness ==
    \E inv \in Finished :
        /\ Len(inv.results) = 2
        /\ ~inv.results[1].identical /\ inv.results[1].error = ""
        /\ inv.results[2].identical
        /\ inv.statuses = <<DiffComputed(2)>>

\* C3: in every step of handleDiff, an editor whose formatCode call succeeded
\* holds the formatted text of what was read from it, and one whose call
\* failed is left as it was; a failed call never shows an error status (the
\* only error statuses are those of the validation and of the two libraries
\* of the comparison pass), and an invocation that passed the validation
\* compares every candidate unless a library of the comparison pass fails.
C3_FmtBefore(inv) ==
    IF \E old \in Range(invs) : old.id = inv.id
    THEN Len((CHOOSE old \in Range(invs) : old.id = inv.id).fmt)
    ELSE 0
C3_Writes ==
    \A inv \in Range(invs') :
        \A n \in (C3_FmtBefore(inv) + 1)..Len(inv.fmt) :
            LET e == inv.fmt[n]
            IN  /\ e.ok => /\ content'[e.key] = e.text
                           /\ \E pretty \in {"absent", "rejects", "resolves"} :
                                  formatCode(e.raw, inv.language, pretty)
                                      = Ok(e.text)
                /\ ~e.ok => content'[e.key] = content[e.key]
C3_BestEffort ==
    \A inv \in Finished :
        /\ \A n \in DOMAIN inv.statuses :
               inv.statuses[n].type = "error" =>
                   \/ inv.statuses[n]
                          \in {NothingToCompare, BaseEmpty, InsufficientInput}
                   \/ /\ Fatal(inv)
                      /\ inv.statuses[n].message
                             \in {DifferUnavailable, RendererUnavailable}
        /\ Validated(inv) /\ ~Fatal(inv) =>
               /\ [j \in DOMAIN inv.results |-> inv.results[j].other]
                      = inv.othersWithContent
               /\ \A n \in DOMAIN inv.statuses :
                      inv.statuses[n].type = "success"
C3_Formatting == [][C3_Writes /\ C3_BestEffort']_vars
\* one call failed, another succeeded, and both candidates were compared
C3_Witness ==
    \E inv \in Finished :
        /\ \E n \in DOMAIN inv.fmt : ~inv.fmt[n].ok /\ inv.fmt[n].raw = <<"x">>
        /\ \E n \in DOMAIN inv.fmt :
               inv.fmt[n].ok /\ content[inv.fmt[n].key] = <<"1", NL>>
        /\ Len(inv.results) = 2
        /\ inv.statuses = <<DiffComputed(2)>>

\* C4: every call of computeAndRenderDiff by handleDiff is given a base text
\* and a candidate text that are not blank.
C4_ComparedNotBlank ==
    \A inv \in Range(invs) :
        \A j \in DOMAIN inv.results :
            ~Blank(inv.results[j].base) /\ ~Blank(inv.results[j].text)

\* C5: while a handleDiff invocation is suspended at its await of formatCode,
\* no user event is handled.
C5_RunToCompletion ==
    [][(\E inv \in Range(invs) : inv.pc = "await") => events' = events]_vars

\* C6: a call of computeAndRenderDiff that returns, on two texts that are
\* equal once each ends with a newline, returns identical.
C6_NormalizedEqualIsIdentical ==
    probe.ret # <<>> /\ probe.ret[1].error = ""
    /\ WithFinalNewline(probe.original) = WithFinalNewline(probe.modified)
        => probe.ret[1].identical

\* C7: on two equal texts, or two blank texts, computeAndRenderDiff returns
\* identical, without an error and without a call of Diff or of Diff2HtmlUI,
\* whether they are defined or not.
C7_ShortCircuit ==
    probe.ret # <<>>
    /\ (probe.original = probe.modified
        \/ (Blank(probe.original) /\ Blank(probe.modified)))
        => /\ probe.ret[1].identical
           /\ probe.ret[1].error = ""
           /\ probe.ret[1].patch = <<>>
           /\ ~probe.ret[1].drawn
\* two different blank texts and neither library
C7_Witness ==
    /\ probe.ret # <<>>
    /\ probe.original = <<" ">> /\ probe.modified = <<NL, " ">>
    /\ ~probe.hasDiff /\ ~probe.hasDiff2Html
    /\ probe.ret[1].identical

\* C8 as stated: with Diff or Diff2HtmlUI undefined, every comparison of a
\* handleDiff invocation fails, with DifferUnavailable or RendererUnavailable,
\* and the invocation ends with one error status.
C8_AbsenceAlwaysFatal ==
    \A inv \in Finished :
        inv.results # <<>> /\ (~inv.hasDiff \/ ~inv.hasDiff2Html) =>
            /\ \A j \in DOMAIN inv.results :
                   inv.results[j].error
                       \in {DifferUnavailable, RendererUnavailable}
            /\ Len(inv.statuses) = 1
            /\ inv.statuses[1].type = "error"

\* C8, amended: with Diff or Diff2HtmlUI undefined, a comparison of two texts
\* that are neither equal nor both blank fails, with DifferUnavailable if Diff
\* is undefined and with RendererUnavailable otherwise; a comparison that
\* fails is the last of its invocation, which ends with that one error status
\* and no success status.
C8_ShortCircuited(r) == r.base = r.text \/ (Blank(r.base) /\ Blank(r.text))
C8_AbsenceFatal ==
    \A inv \in Range(invs) :
        \A j \in DOMAIN inv.results :
            LET r == inv.results[j]
            IN  /\ ~C8_ShortCircuited(r) /\ ~inv.hasDiff
                       => r.error = DifferUnavailable
                /\ ~C8_ShortCircuited(r) /\ inv.hasDiff /\ ~inv.hasDiff2Html
                       => r.error = RendererUnavailable
                /\ r.error # "" =>
                       /\ j = Len(inv.results)
                       /\ inv.pc = "done"
                       /\ inv.statuses = <<Status(r.error, "error", 0)>>
\* the first of two candidates fails for want of Diff2HtmlUI, the second is
\* not compared
C8_Witness ==
    \E inv \in Finished :
        /\ Len(inv.othersWithContent) = 2
        /\ Len(inv.results) = 1
        /\ inv.results[1].error = RendererUnavailable
        /\ inv.statuses = <<Status(RendererUnavailable, "error", 0)>>

\* C9: after one rotation A holds the text and the title C held, B those A
\* held, and C those B held.
C9_Rotation ==
    hist.cycles = 1 =>
        /\ content["A"] = hist.content["C"] /\ title["A"] = hist.title["C"]
        /\ content["B"] = hist.content["A"] /\ title["B"] = hist.title["A"]
        /\ content["C"] = hist.content["B"] /\ title["C"] = hist.title["B"]
\* one rotation of three different texts under three different titles
C9_Witness ==
    /\ hist.cycles = 1
    /\ Cardinality({hist.content[k] : k \in KeySet}) = 3
    /\ Cardinality({hist.title[k] : k \in KeySet}) = 3
    /\ content["A"] = hist.content["C"]

\* C10: after three rotations in a row every editor holds the text and the
\* title it held before the first.
C10_ThreeRotations ==
    hist.cycles = 3 => content = hist.content /\ title = hist.title
\* three rotations of three different texts under three different titles
C10_Witness ==
    /\ hist.cycles = 3
    /\ Cardinality({content[k] : k \in KeySet}) = 3
    /\ Cardinality({title[k] : k \in KeySet}) = 3
    /\ content = hist.content

\* the call of formatCode for json has settled
C11_Settled == probe.fn = "formatCode" /\ probe.ret # <<>>
\* JSON.parse rejects the text
C11_Malformed(code) == ~JSONparse(code).ok

\* C11 as stated: formatCode for json on a text JSON.parse rejects fails with
\* 'Invalid JSON: ' and the parser's message, whatever the pretty-printer
\* does.
C11_AlwaysInvalidSyntax ==
    C11_Settled /\ C11_Malformed(probe.code) =>
        /\ ~probe.ret[1].ok
        /\ probe.ret[1].error
               = InvalidSyntax(JSONparse(probe.code).message)

\* C11, amended: formatCode for json on a text JSON.parse rejects and that is
\* not blank fails with 'Invalid JSON: ' and the parser's message when the
\* pretty-printer is absent or rejects the text, and resolves with the
\* pretty-printer's output when it accepts the text; on a blank text it
\* fails with 'No code to format', whatever the pretty-printer does.
C11_FallbackChain ==
    C11_Settled /\ C11_Malformed(probe.code) =>
        /\ ~Blank(probe.code) /\ probe.pretty \in {"absent", "rejects"} =>
               /\ ~probe.ret[1].ok
               /\ probe.ret[1].error
                      = InvalidSyntax(JSONparse(probe.code).message)
        /\ ~Blank(probe.code) /\ probe.pretty = "resolves" =>
               probe.ret[1] = Ok(PrettierFormat(probe.code))
        /\ Blank(probe.code) =>
               ~probe.ret[1].ok /\ probe.ret[1].error = NoCode
\* a text that is not JSON, the pretty-printer rejecting it, and the fallback
\* failing with the parser's message
C11_Witness ==
    /\ C11_Settled
    /\ probe.code = <<"1", " ", "x">>
    /\ probe.pretty = "rejects"
    /\ probe.ret[1].error = InvalidSyntax("Unexpected token")

\* C12: formatPython of what formatPython returned is that same text.
C12_Idempotent ==
    probe.fn = "formatPython" /\ probe.again # <<>>
        => probe.again[1] = probe.ret[1]
\* a second call on the result of a first that changed its input: line
\* endings, a tab, white space at the end of a line
C12_Witness ==
    /\ probe.fn = "formatPython" /\ probe.again # <<>>
    /\ probe.code = <<"\t", "x", " ", "\r", NL>>
    /\ probe.ret[1] = <<" ", " ", " ", " ", "x", NL>>
    /\ probe.again[1] = probe.ret[1]

\* the lines of a text that ends with a newline
C13_Lines(s) == LET parts == Split(s) IN SubSeq(parts, 1, Len(parts) - 1)
\* C13: the text formatPython returns has no three blank lines in a row,
\* at its start or elsewhere, and ends with exactly one newline.
C13_BlankLineRule ==
    probe.fn = "formatPython" /\ probe.ret # <<>> =>
        LET out == probe.ret[1]
            lines == C13_Lines(out)
        IN  /\ EndsWithNL(out)
            /\ Len(out) >= 2 => out[Len(out) - 1] # NL
            /\ \A i \in 1..(Len(lines) - 2) :
                   ~(lines[i] = <<>> /\ lines[i + 1] = <<>>
                     /\ lines[i + 2] = <<>>)

\* the keys of the diff results in the output container, in their order
C14_Shown == [j \in DOMAIN container |-> container[j].other]
\* C14: when a handleDiff invocation that passed the validation ends without
\* a fatal error, the output container holds one diff result for each
\* candidate that is not blank and nothing else, in the order A, B, C
\* without the base, and 'Diff computed' reports their number.
C14_OneResultPerPair ==
    \A inv \in Finished :
        Validated(inv) /\ ~Fatal(inv) =>
            /\ C14_Shown
                   = WithContent(content,
                                 SelectSeq(Keys, LAMBDA k : k # inv.baseKey))
            /\ inv.statuses[1] # NoDifferences
                   => inv.statuses[1].count = Len(container)

\* C15: every text the pre-formatting pass of handleDiff writes to an editor
\* is the formatted form of the text the editor holds when it is written.
C15_WritesCurrent ==
    \A inv \in Range(invs') :
        \A n \in (C3_FmtBefore(inv) + 1)..Len(inv.fmt) :
            inv.fmt[n].ok => inv.fmt[n].raw = content[inv.fmt[n].key]
C15_NoStaleWriteBack == [][C15_WritesCurrent]_vars

\* the awaits an invocation has left: one for each key not yet formatted
C16_AwaitsLeft(inv) == Len(inv.keysWithContent) - Len(inv.fmt)
\* C16: a handleDiff invocation that has ended has shown exactly one status,
\* and one that is suspended at its await of formatCode has shown none and
\* has at most three awaits left; a step leaves a suspended invocation as it
\* is unless its promise settles, and each settlement takes it to its end or
\* to an await with fewer left: it ends once its promises have settled, and
\* shows no status while one has not.
C16_StatusCount ==
    \A inv \in Range(invs) :
        /\ inv.pc \in {"await", "done"}
        /\ Len(inv.statuses) = IF inv.pc = "done" THEN 1 ELSE 0
        /\ inv.pc = "await" =>
               C16_AwaitsLeft(inv) \in 1..Len(Keys)
C16_Progress ==
    \A old \in Range(invs) :
        old.pc = "await" =>
            \E new \in Range(invs') :
                /\ new.id = old.id
                /\ events' # events => new = old
                /\ new # old =>
                       \/ new.pc = "done"
                       \/ C16_AwaitsLeft(new) < C16_AwaitsLeft(old)
C16_OneStatus == [](C16_StatusCount) /\ [][C16_Progress]_vars
\* an invocation that awaited prettier.format twice and ended with one status
C16_Witness ==
    \E inv \in Finished :
        /\ inv.hasPrettier
        /\ Len(inv.fmt) = 2
        /\ inv.fmt[1].ok /\ inv.fmt[2].ok
        /\ Len(inv.statuses) = 1

\* how many of the three slots of f hold v
C17_Count(f, v) == Cardinality({k \in KeySet : f[k] = v})
C17_SameMultiset(f, g) ==
    \A v \in {f[k] : k \in KeySet} \cup {g[k] : k \in KeySet} :
        C17_Count(f, v) = C17_Count(g, v)
\* C17: handleCycle leaves the base designation and the output container as
\* they are, and the three texts and the three titles after it are those
\* before it, each as many times; the base slot holds what slot C held if the
\* base is A, what A held if it is B, what B held if it is C.
C17_Step ==
    /\ primary' = primary
    /\ container' = container
    /\ C17_SameMultiset(content', content)
    /\ C17_SameMultiset(title', title)
    /\ content'[primary'] = content[CASE primary = "A" -> "C"
                                       [] primary = "B" -> "A"
                                       [] primary = "C" -> "B"]
C17_Frame == [][hist'.cycles = hist.cycles + 1 => C17_Step]_vars
\* a rotation with base B and a diff shown: the base is still B, the output
\* is still shown, and B holds another text than before
C17_Witness ==
    /\ hist.cycles = 1
    /\ primary = "B"
    /\ container = SomeOutput
    /\ content["B"] # hist.content["B"]
    /\ Cardinality({hist.content[k] : k \in KeySet}) = 2

\* C18: after handleDiffClear the three texts and the three titles are
\* empty, the output container is empty and the base is A, whatever they
\* were; a handleDiff invocation started in that state ends with 'Enter
\* content in at least two editors', formats and compares nothing, and
\* leaves the editors empty.
C18_Cleared ==
    /\ content = NoContent
    /\ title = NoContent
    /\ container = <<>>
    /\ primary = "A"
C18_Step ==
    /\ ClearClick => C18_Cleared'
    /\ C18_Cleared /\ C1_Starts =>
           LET inv == invs'[Len(invs')]
           IN  /\ inv.pc = "done"
               /\ inv.statuses = <<NothingToCompare>>
               /\ inv.fmt = <<>> /\ inv.results = <<>>
               /\ content' = NoContent
=============================================================================
